---- MODULE Spec2Model ----
(***************************************************************************)
(* Model of src/main.py: the M3U8 scraper service.                         *)
(*                                                                         *)
(* Strings are sequences of tokens.  A token is either one ordinary        *)
(* character or one of the literals the regular expressions and the URL    *)
(* parser look for ("id", "sources", "file", "http://", ".m3u8", a quote,  *)
(* a whitespace character).  The JavaScript sandbox (execjs) and the HTTP  *)
(* client (requests) are the environment: each call returns one of the     *)
(* outcomes it can produce, chosen nondeterministically.                   *)
(***************************************************************************)
EXTENDS Integers, Sequences, FiniteSets, TLC

VARIABLES
    url,              \* the request URL
    pc,               \* position in get_m3u8_from_source
    slug,             \* result of extract_slug_from_url
    session_headers,  \* self.session.headers, shared by all requests
    attempts,         \* the HTTP requests sent so far
    body,             \* response.text
    packed_scripts,   \* result of find_eval_packed_js
    idx,              \* enumerate index of the script in process (from 1)
    strategies,       \* unpacking strategies tried on that script
    outcomes,         \* what each of them gave, until the script is done with
    unpacked_js,      \* text recovered from that script
    all_m3u8_links,   \* links accumulated over the scripts
    per_script,       \* what happened to every script processed so far
    trace,            \* the steps taken so far
    response,         \* the returned M3U8Response
    parked            \* locals of a concurrent run that waits for the CPU

vars == <<url, pc, slug, session_headers, attempts, body, packed_scripts, idx,
          strategies, outcomes, unpacked_js, all_m3u8_links, per_script, trace,
          response, parked>>

\* ---------------------------------------------------------------- bounds
MaxUrlLen == 5

\* ------------------------------------------------------- generic helpers
\* Python's None / Optional[...]: the empty set is None, {v} is the value v.
None == {}
Some(v) == {v}
TheVal(o) == CHOOSE v \in o : TRUE

\* All sequences over S of length at most n.
SeqsUpTo(S, n) == UNION {[1..k -> S] : k \in 0..n}

\* Index of the first occurrence in s of a token of the set cs, 0 when none.
RECURSIVE FindFrom(_, _, _)
FindFrom(s, cs, i) ==
    IF i > Len(s) THEN 0
    ELSE IF s[i] \in cs THEN i
    ELSE FindFrom(s, cs, i + 1)

FirstOf(s, cs) == FindFrom(s, cs, 1)

\* s[i..] and s[..i]
From(s, i) == SubSeq(s, i, Len(s))
Upto(s, i) == SubSeq(s, 1, i)

\* str.strip(c)
RECURSIVE LStrip(_, _)
LStrip(s, c) == IF s # <<>> /\ Head(s) = c THEN LStrip(Tail(s), c) ELSE s

RECURSIVE RStrip(_, _)
RStrip(s, c) ==
    IF s # <<>> /\ s[Len(s)] = c THEN RStrip(Upto(s, Len(s) - 1), c) ELSE s

Strip(s, c) == RStrip(LStrip(s, c), c)

\* str.split(c): always at least one part; "".split(c) is [""].
RECURSIVE Split(_, _)
Split(s, c) ==
    LET k == FirstOf(s, {c})
    IN IF k = 0 THEN <<s>>
       ELSE <<Upto(s, k - 1)>> \o Split(From(s, k + 1), c)

\* --------------------------------------------------------- slug resolver
\* A URL is "https://" followed by the first netloc token and a tail of
\* tokens.  The netloc token "[bad" stands for a netloc with an unbalanced
\* bracket, which urlparse rejects with ValueError.
UrlTokens == {"/", "a", "?", "#", "id", "=", "&"}
Netlocs == {"host", "[bad"}

\* urllib.parse.urlparse: the netloc runs to the first of / ? #, the
\* fragment is cut at the first #, the query at the first ?, the rest is
\* the path.  Returns None for the ValueError.
urlparse(u) ==
    IF u.netloc = "[bad" THEN None
    ELSE LET d    == FirstOf(u.tail, {"/", "?", "#"})
             rest == IF d = 0 THEN <<>> ELSE From(u.tail, d)
             h    == FirstOf(rest, {"#"})
             r1   == IF h = 0 THEN rest ELSE Upto(rest, h - 1)
             q    == FirstOf(r1, {"?"})
         IN Some([path  |-> IF q = 0 THEN r1 ELSE Upto(r1, q - 1),
                  query |-> IF q = 0 THEN <<>> ELSE From(r1, q + 1)])

\* urllib.parse.parse_qs, reduced to the values stored under one key:
\* fields are separated by &, a field without = or with a blank value is
\* dropped, the name is what precedes the first =.
RECURSIVE ValuesOf(_, _)
ValuesOf(fields, key) ==
    IF fields = <<>> THEN <<>>
    ELSE LET f  == Head(fields)
             e  == FirstOf(f, {"="})
             ok == e # 0 /\ Upto(f, e - 1) = <<key>> /\ From(f, e + 1) # <<>>
         IN (IF ok THEN <<From(f, e + 1)>> ELSE <<>>)
            \o ValuesOf(Tail(fields), key)

parse_qs(query, key) == ValuesOf(Split(query, "&"), key)

\* VideoScraper.extract_slug_from_url.  Returns [exc, val]: exc is TRUE
\* when urlparse raised, val is the returned Optional string.
extract_slug_from_url(u) ==
    LET p == urlparse(u)
    IN IF p = None THEN [exc |-> TRUE, val |-> None]
       ELSE LET parsed_url   == TheVal(p)
                path_parts   == Split(Strip(parsed_url.path, "/"), "/")
                query_params == parse_qs(parsed_url.query, "id")
            IN IF path_parts # <<>>
               THEN [exc |-> FALSE, val |-> Some(path_parts[Len(path_parts)])]
               ELSE IF query_params # <<>>
               THEN [exc |-> FALSE, val |-> Some(query_params[1])]
               ELSE [exc |-> FALSE, val |-> None]

\* Python truthiness of an Optional string: "not slug".
Falsy(o) == o = None \/ o = Some(<<>>)

\* -------------------------------------------------------- link extractor
\* Tokens of an unpacked script: the words "sources" and "file", the
\* scheme prefix http:// (or https://), the extension .m3u8, a quote
\* (" or '), a whitespace character, and ordinary characters.
Quote == "'"
Ws == " "
Scheme == "http://"
Ext == ".m3u8"
TextTokens == {"sources", "file", ":", "[", "]", Quote, Ws, Scheme, Ext, "a", "b"}

\* \s* : the first index at or after i that holds no whitespace.
RECURSIVE SkipWs(_, _)
SkipWs(t, i) == IF i <= Len(t) /\ t[i] = Ws THEN SkipWs(t, i + 1) ELSE i

At(t, i, c) == i <= Len(t) /\ t[i] = c

\* TRUE when t[lo..hi] holds the extension with at least one token before it
\* (the shape [^...]+\.m3u8[^...]* of a span whose tokens are all allowed).
HasExt(t, lo, hi) == \E m \in (lo + 1)..hi : t[m] = Ext

\* jwplayer_pattern  sources\s*:\s*\[([^\]]+)\]  tried at position p:
\* the captured group, or None.
JwAt(t, p) ==
    IF ~At(t, p, "sources") THEN None
    ELSE LET j == SkipWs(t, p + 1)
         IN IF ~At(t, j, ":") THEN None
            ELSE LET k == SkipWs(t, j + 1)
                 IN IF ~At(t, k, "[") THEN None
                    ELSE LET c == FindFrom(t, {"]"}, k + 1)
                         IN IF c = 0 \/ c = k + 1 THEN None
                            ELSE Some(SubSeq(t, k + 1, c - 1))

\* re.findall(jwplayer_pattern, ...)[0] when there is a match, else None.
RECURSIVE FirstJw(_, _)
FirstJw(t, p) ==
    IF p > Len(t) THEN None
    ELSE IF JwAt(t, p) # None THEN JwAt(t, p)
    ELSE FirstJw(t, p + 1)

\* file_pattern  file\s*:\s*["']([^"']+\.m3u8[^"']*)["']  tried at p:
\* [end, group] of the match, or None.
FileAt(s, p) ==
    IF ~At(s, p, "file") THEN None
    ELSE LET j == SkipWs(s, p + 1)
         IN IF ~At(s, j, ":") THEN None
            ELSE LET k == SkipWs(s, j + 1)
                 IN IF ~At(s, k, Quote) THEN None
                    ELSE LET c == FindFrom(s, {Quote}, k + 1)
                         IN IF c = 0 \/ ~HasExt(s, k + 1, c - 1) THEN None
                            ELSE Some([end |-> c, group |-> SubSeq(s, k + 1, c - 1)])

\* re.findall(file_pattern, sources_text): leftmost non-overlapping matches.
RECURSIVE FileFindall(_, _)
FileFindall(s, p) ==
    IF p > Len(s) THEN <<>>
    ELSE LET m == FileAt(s, p)
         IN IF m = None THEN FileFindall(s, p + 1)
            ELSE <<TheVal(m).group>> \o FileFindall(s, TheVal(m).end + 1)

\* Last index of the run of tokens other than quote and whitespace that
\* starts at i (i - 1 when the run is empty).
RECURSIVE RunEnd(_, _)
RunEnd(t, i) ==
    IF i <= Len(t) /\ t[i] \notin {Quote, Ws} THEN RunEnd(t, i + 1) ELSE i - 1

\* Mutant: the general pattern without its trailing run, the extension
\* closing the URL.
GeneralAt_ExtLast(t, p) ==
    IF ~At(t, p, Scheme) THEN None
    ELSE LET e == RunEnd(t, p + 1)
         IN IF ~HasExt(t, p + 1, e) \/ t[e] # Ext THEN None
            ELSE Some([end |-> e, group |-> SubSeq(t, p, e)])

\* general_pattern  https?://[^"'\s]+\.m3u8[^"'\s]*  tried at p:
\* [end, group] of the match, or None.
GeneralAt(t, p) ==
    IF ~At(t, p, Scheme) THEN None
    ELSE LET e == RunEnd(t, p + 1)
         IN IF ~HasExt(t, p + 1, e) THEN None
            ELSE Some([end |-> e, group |-> SubSeq(t, p, e)])

\* re.findall(general_pattern, unpacked_js)
RECURSIVE GeneralFindall(_, _)
GeneralFindall(t, p) ==
    IF p > Len(t) THEN <<>>
    ELSE LET m == GeneralAt(t, p)
         IN IF m = None THEN GeneralFindall(t, p + 1)
            ELSE <<TheVal(m).group>> \o GeneralFindall(t, TheVal(m).end + 1)

\* First index in lo..hi holding the extension, 0 when none.
RECURSIVE FirstExt(_, _, _)
FirstExt(t, lo, hi) ==
    IF lo > hi THEN 0
    ELSE IF t[lo] = Ext THEN lo
    ELSE FirstExt(t, lo + 1, hi)

\* aggressive_pattern  ["']?(https?://[^"'\s]+?\.m3u8[^"'\s]*)["']?  tried
\* at p: the optional quote is taken when present, the lazy run stops at
\* the first extension, the greedy run takes the rest, the closing quote is
\* taken when present.
AggressiveAt(t, p) ==
    LET h == IF At(t, p, Quote) /\ At(t, p + 1, Scheme) THEN p + 1 ELSE p
    IN IF ~At(t, h, Scheme) THEN None
       ELSE LET x == FirstExt(t, h + 2, RunEnd(t, h + 1))
            IN IF x = 0 THEN None
               ELSE LET e == RunEnd(t, x + 1)
                    IN Some([end   |-> IF At(t, e + 1, Quote) THEN e + 1 ELSE e,
                             group |-> SubSeq(t, h, e)])

\* re.findall(aggressive_pattern, unpacked_js)
RECURSIVE AggressiveFindall(_, _)
AggressiveFindall(t, p) ==
    IF p > Len(t) THEN <<>>
    ELSE LET m == AggressiveAt(t, p)
         IN IF m = None THEN AggressiveFindall(t, p + 1)
            ELSE <<TheVal(m).group>> \o AggressiveFindall(t, TheVal(m).end + 1)

\* The loop of lines 166-171: keep the first occurrence of every link.
RECURSIVE UniqueLoop(_, _, _)
UniqueLoop(links, unique_links, seen) ==
    IF links = <<>> THEN unique_links
    ELSE IF Head(links) \notin seen
    THEN UniqueLoop(Tail(links), Append(unique_links, Head(links)), seen \cup {Head(links)})
    ELSE UniqueLoop(Tail(links), unique_links, seen)

\* The structured pass of lines 148-158.
StructuredLinks(unpacked) ==
    LET jwplayer_matches == FirstJw(unpacked, 1)
    IN IF jwplayer_matches # None
       THEN FileFindall(TheVal(jwplayer_matches), 1)
       ELSE <<>>

\* Mutant: the generic pass only runs when the structured pass found nothing.
extract_m3u8_links_GenericAsElse(unpacked) ==
    LET m3u8_links    == StructuredLinks(unpacked)
        general_links == GeneralFindall(unpacked, 1)
    IN UniqueLoop(IF m3u8_links = <<>> THEN general_links ELSE m3u8_links, <<>>, {})

\* VideoScraper.extract_m3u8_links
extract_m3u8_links(unpacked) ==
    LET m3u8_links    == StructuredLinks(unpacked)
        general_links == GeneralFindall(unpacked, 1)
    IN UniqueLoop(m3u8_links \o general_links, <<>>, {})

\* Mutant: a deduplication that keeps the last occurrence of every link.
RECURSIVE DictFromKeys_KeepLast(_)
DictFromKeys_KeepLast(links) ==
    IF links = <<>> THEN <<>>
    ELSE LET r == DictFromKeys_KeepLast(Tail(links))
             l == Head(links)
         IN IF \E i \in 1..Len(r) : r[i] = l THEN r ELSE <<l>> \o r

\* list(dict.fromkeys(all_m3u8_links))
RECURSIVE DictFromKeys(_)
DictFromKeys(links) ==
    IF links = <<>> THEN <<>>
    ELSE LET r == DictFromKeys(Upto(links, Len(links) - 1))
             l == links[Len(links)]
         IN IF \E i \in 1..Len(r) : r[i] = l THEN r ELSE Append(r, l)

\* ------------------------------------------------------------ environment
\* len(unpacked) < 100 at line 97.
MinUnpackedLen == 100
\* The timeouts of lines 229, 233 and 244.
ShortTimeout == 30
LongTimeout == 60

\* A run of 95 ordinary characters, as one token.
Filler == "a*95"

\* Number of characters a token stands for.
Width(tok) ==
    CASE tok = "sources" -> 7
      [] tok = "file" -> 4
      [] tok = Scheme -> 7
      [] tok = Ext -> 5
      [] tok = "Error:" -> 6
      [] tok = Filler -> 95
      [] OTHER -> 1

\* len() of a string
RECURSIVE StrLen(_)
StrLen(t) == IF t = <<>> THEN 0 ELSE Width(Head(t)) + StrLen(Tail(t))

\* Unpacked texts the sandbox may hand back.
StructuredText == <<"sources", ":", "[", "file", ":", Quote, "a", Ext, Quote, "]">>
GeneralText == <<Scheme, "b", Ext>>
QuotedText == <<"file", ":", Quote, Scheme, "a", Ext, Quote, Ws, Scheme, "b", Ext, Ws, Scheme, "a", Ext>>
PlainText == <<"a", "b">>
Short99 == <<Filler, "a", "a", "a", "a">>
Long100 == <<Filler, "a", "a", "a", "a", "a">>

ShortTexts == {PlainText, GeneralText, StructuredText, Short99}
LongTexts == {Long100,
              GeneralText \o <<Ws>> \o Long100,
              StructuredText \o <<Ws>> \o Long100,
              QuotedText \o <<Ws>> \o Long100}

\* Outcome of one call into the sandbox: an exception, or the returned
\* value (None for undefined, else a string).
Raised == [exc |-> TRUE, val |-> None]
Returned(v) == [exc |-> FALSE, val |-> v]

CallOutcomes ==
    {Raised, Returned(None), Returned(Some(<<>>))}
    \cup {Returned(Some(t)) : t \in ShortTexts \cup LongTexts}

\* unPack returns code.join(...), always a string, unless the call raises.
SecondaryOutcomes == CallOutcomes \ {Returned(None)}

\* simpleUnpack returns sandbox.result (a string) or "Error: ..." when the
\* script threw.
ThirdOutcomes ==
    {Raised, Returned(Some(<<>>)), Returned(Some(<<"Error:", "a">>))}
    \cup {Returned(Some(t \o <<Ws>>)) : t \in {PlainText, GeneralText, QuotedText}}

\* Outcome of one HTTP request followed by raise_for_status().
FetchOutcomes == {"ok", "Timeout", "ConnectionError", "HTTPError", "RequestException"}

\* A page body: a sequence of fragments, each an eval-packed script or other
\* markup.
MaxBody == 2
Packed == "eval(function(p,a,c,k,e,d)...))"
Bodies == SeqsUpTo({Packed, "html"}, MaxBody)

\* VideoScraper.find_eval_packed_js
find_eval_packed_js(html_content) ==
    SelectSeq(html_content, LAMBDA f : f = Packed)

\* Request URLs of the orchestrator runs.
Url(n, t) == [netloc |-> n, tail |-> t]
RequestUrls ==
    {Url("host", <<"/", "a", "/", "a">>), Url("host", <<"/", "a", "?", "a", "=", "a">>),
     Url("host", <<"/">>), Url("host", <<"?", "id", "=", "a">>),
     Url("host", <<>>), Url("[bad", <<"/", "a">>)}

\* All URLs up to the bound.
AllUrls == {Url(n, t) : n \in Netlocs, t \in SeqsUpTo(UrlTokens, MaxUrlLen)}

\* ------------------------------------------------------------- responses
\* M3U8Response, with the defaults of lines 39-43.
M3U8Response(success, s, n, links, cnt, err) ==
    [success |-> success, slug |-> s, total_packed_scripts |-> n,
     m3u8_links |-> links, count |-> cnt, error |-> err]

\* line 222
NoSlugResponse ==
    M3U8Response(FALSE, None, None, <<>>, 0, Some(<<"Could not extract slug from URL">>))

\* Mutant: the no-scripts failure reuses the no-links error text.
NoScriptsResponse_NoLinksError ==
    M3U8Response(FALSE, None, None, <<>>, 0, Some(<<"No m3u8 links found in any scripts">>))

\* line 257
NoScriptsResponse ==
    M3U8Response(FALSE, None, None, <<>>, 0, Some(<<"No eval-packed scripts found">>))

\* Mutant: zero links reported as a success with an empty list.
NoLinksResponse_EmptySuccess(s, n) ==
    M3U8Response(TRUE, Some(s), Some(n), <<>>, 0, None)

\* Mutant: the zero-links failure drops the script count.
NoLinksResponse_NoTotal(s, n) ==
    M3U8Response(FALSE, Some(s), None, <<>>, 0, Some(<<"No m3u8 links found in any scripts">>))

\* lines 327-332
NoLinksResponse(s, n) ==
    M3U8Response(FALSE, Some(s), Some(n), <<>>, 0, Some(<<"No m3u8 links found in any scripts">>))

\* lines 334-340
SuccessResponse(s, n, links) ==
    M3U8Response(TRUE, Some(s), Some(n), links, Len(links), None)

\* lines 342-344
RequestErrorResponse(e) ==
    M3U8Response(FALSE, None, None, <<>>, 0, Some(<<"Request error", e>>))

\* lines 345-347
UnexpectedErrorResponse(e) ==
    M3U8Response(FALSE, None, None, <<>>, 0, Some(<<"Unexpected error", e>>))

\* --------------------------------------------------------------- unpacker
\* Mutant: the secondary strategy's result is dropped when the primary gave
\* a short text.
unpack_js_KeepsPrimary(primary, secondary) ==
    IF primary.exc THEN [val |-> None, tried |-> <<"primary">>]
    ELSE IF Falsy(primary.val) \/ StrLen(TheVal(primary.val)) < MinUnpackedLen
    THEN IF secondary.exc
         THEN [val |-> None, tried |-> <<"primary", "secondary">>]
         ELSE [val |-> IF Falsy(primary.val) THEN secondary.val ELSE primary.val,
               tried |-> <<"primary", "secondary">>]
    ELSE [val |-> primary.val, tried |-> <<"primary">>]

\* VideoScraper.unpack_js, given the outcomes of the two sandbox calls.
\* Returns the value handed back and the strategies that were run.
unpack_js(primary, secondary) ==
    IF primary.exc THEN [val |-> None, tried |-> <<"primary">>]
    ELSE IF Falsy(primary.val) \/ StrLen(TheVal(primary.val)) < MinUnpackedLen
    THEN IF secondary.exc
         THEN [val |-> None, tried |-> <<"primary", "secondary">>]
         ELSE [val |-> secondary.val, tried |-> <<"primary", "secondary">>]
    ELSE [val |-> primary.val, tried |-> <<"primary">>]

\* The test of line 298 on the third unpacker's return value.
ThirdSucceeded(o) ==
    ~o.exc /\ ~Falsy(o.val) /\ Head(TheVal(o.val)) # "Error:"

\* ------------------------------------------------------------ orchestrator
DefaultHeaders == "session"
BackupHeaders == "backup"

Init ==
    /\ url \in RequestUrls
    /\ pc = "ResolveSlug"
    /\ slug = None
    /\ session_headers = DefaultHeaders
    /\ attempts = <<>>
    /\ body = None
    /\ packed_scripts = <<>>
    /\ idx = 0
    /\ strategies = <<>>
    /\ outcomes = <<>>
    /\ unpacked_js = None
    /\ all_m3u8_links = <<>>
    /\ per_script = <<>>
    /\ trace = <<>>
    /\ response = None
    /\ parked = None

\* return of get_m3u8_from_source
Return(r) ==
    /\ response' = Some(r)
    /\ pc' = "Done"

\* Mutant: the test of line 221 is missing.
ResolveSlug_NoCheck ==
    /\ pc = "ResolveSlug"
    /\ trace' = Append(trace, "ResolveSlug")
    /\ LET r == extract_slug_from_url(url)
       IN IF r.exc
          THEN /\ Return(UnexpectedErrorResponse("ValueError"))
               /\ UNCHANGED slug
          ELSE /\ slug' = IF r.val = None THEN Some(<<>>) ELSE r.val
               /\ pc' = "Fetch"
               /\ UNCHANGED response
    /\ UNCHANGED <<url, session_headers, attempts, body, packed_scripts, idx,
                   strategies, unpacked_js, all_m3u8_links, per_script>>
    /\ UNCHANGED <<outcomes, parked>>

\* lines 218-224
ResolveSlug ==
    /\ pc = "ResolveSlug"
    /\ trace' = Append(trace, "ResolveSlug")
    /\ LET r == extract_slug_from_url(url)
       IN IF r.exc
          THEN /\ Return(UnexpectedErrorResponse("ValueError"))
               /\ UNCHANGED slug
          ELSE /\ slug' = r.val
               /\ IF Falsy(r.val)
                  THEN Return(NoSlugResponse)
                  ELSE pc' = "Fetch" /\ UNCHANGED response
    /\ UNCHANGED <<url, session_headers, attempts, body, packed_scripts, idx,
                   strategies, unpacked_js, all_m3u8_links, per_script>>
    /\ UNCHANGED <<outcomes, parked>>

\* One HTTP request: session.get sends the session's headers, requests.get
\* the headers it is given.
Request(timeout, headers, outcome) ==
    [timeout |-> timeout, headers |-> headers, outcome |-> outcome]

\* Mutant: a timeout is not retried.
AfterFirst_NoTimeoutRetry(outcome) ==
    CASE outcome = "ok" -> "Locate"
      [] outcome = "ConnectionError" -> "RetryHeaders"
      [] OTHER -> "Done"

\* Mutant: an HTTP failure status is retried like a timeout.
AfterFirst_RetryHttpError(outcome) ==
    CASE outcome = "ok" -> "Locate"
      [] outcome \in {"Timeout", "HTTPError"} -> "RetryTimeout"
      [] outcome = "ConnectionError" -> "RetryHeaders"
      [] OTHER -> "Done"

\* Where the first request's outcome leads (lines 228-235).
AfterFirst(outcome) ==
    CASE outcome = "ok" -> "Locate"
      [] outcome = "Timeout" -> "RetryTimeout"
      [] outcome = "ConnectionError" -> "RetryHeaders"
      [] OTHER -> "Done"

\* lines 228-230: the first request
FetchFirst ==
    /\ pc = "Fetch"
    /\ trace' = Append(trace, "Fetch")
    /\ \E outcome \in FetchOutcomes, b \in Bodies :
          /\ attempts' = Append(attempts, Request(ShortTimeout, session_headers, outcome))
          /\ pc' = AfterFirst(outcome)
          /\ body' = IF outcome = "ok" THEN Some(b) ELSE body
          /\ response' = IF AfterFirst(outcome) = "Done"
                         THEN Some(RequestErrorResponse(outcome))
                         ELSE response
    /\ UNCHANGED <<url, slug, session_headers, packed_scripts, idx, strategies,
                   unpacked_js, all_m3u8_links, per_script>>
    /\ UNCHANGED <<outcomes, parked>>

\* Mutant: a failed retry is swallowed and an empty page is processed.
Retry_Swallow(timeout, headers) ==
    /\ trace' = Append(trace, "Fetch")
    /\ \E outcome \in FetchOutcomes, b \in Bodies :
          /\ attempts' = Append(attempts, Request(timeout, headers, outcome))
          /\ body' = IF outcome = "ok" THEN Some(b) ELSE Some(<<>>)
          /\ pc' = "Locate"
          /\ UNCHANGED response
    /\ UNCHANGED <<url, slug, session_headers, packed_scripts, idx, strategies,
                   unpacked_js, all_m3u8_links, per_script>>
    /\ UNCHANGED <<outcomes, parked>>

\* Mutant: the headers of a retry are written into the session.
Retry_UpdatesSession(timeout, headers) ==
    /\ trace' = Append(trace, "Fetch")
    /\ session_headers' = headers
    /\ \E outcome \in FetchOutcomes, b \in Bodies :
          /\ attempts' = Append(attempts, Request(timeout, headers, outcome))
          /\ IF outcome = "ok"
             THEN /\ body' = Some(b)
                  /\ pc' = "Locate"
                  /\ UNCHANGED response
             ELSE /\ Return(RequestErrorResponse(outcome))
                  /\ UNCHANGED body
    /\ UNCHANGED <<url, slug, packed_scripts, idx, strategies,
                   unpacked_js, all_m3u8_links, per_script>>
    /\ UNCHANGED <<outcomes, parked>>

\* A retry: its failure is not caught at lines 231-245 and reaches line 342.
Retry(timeout, headers) ==
    /\ trace' = Append(trace, "Fetch")
    /\ \E outcome \in FetchOutcomes, b \in Bodies :
          /\ attempts' = Append(attempts, Request(timeout, headers, outcome))
          /\ IF outcome = "ok"
             THEN /\ body' = Some(b)
                  /\ pc' = "Locate"
                  /\ UNCHANGED response
             ELSE /\ Return(RequestErrorResponse(outcome))
                  /\ UNCHANGED body
    /\ UNCHANGED <<url, slug, session_headers, packed_scripts, idx, strategies,
                   unpacked_js, all_m3u8_links, per_script>>
    /\ UNCHANGED <<outcomes, parked>>

\* lines 231-234: retry after a timeout
FetchRetryTimeout ==
    /\ pc = "RetryTimeout"
    /\ Retry(LongTimeout, session_headers)

\* Mutant: the retry after a connection error reuses the session.
FetchRetryHeaders_SameHeaders ==
    /\ pc = "RetryHeaders"
    /\ Retry(LongTimeout, session_headers)

\* lines 235-245: retry after a connection error
FetchRetryHeaders ==
    /\ pc = "RetryHeaders"
    /\ Retry(LongTimeout, BackupHeaders)

\* Mutant: the empty-list test of line 252 is missing.
LocateScripts_NoEmptyCheck ==
    /\ pc = "Locate"
    /\ trace' = Append(trace, "LocateScripts")
    /\ packed_scripts' = find_eval_packed_js(TheVal(body))
    /\ pc' = IF packed_scripts' = <<>> THEN "Aggregate" ELSE "Unpack"
    /\ idx' = 1
    /\ UNCHANGED <<url, slug, session_headers, attempts, body, strategies,
                   unpacked_js, all_m3u8_links, per_script, response>>
    /\ UNCHANGED <<outcomes, parked>>

\* lines 247-260
LocateScripts ==
    /\ pc = "Locate"
    /\ trace' = Append(trace, "LocateScripts")
    /\ packed_scripts' = find_eval_packed_js(TheVal(body))
    /\ IF packed_scripts' = <<>>
       THEN /\ Return(NoScriptsResponse)
            /\ UNCHANGED idx
       ELSE /\ pc' = "Unpack"
            /\ idx' = 1
            /\ UNCHANGED response
    /\ UNCHANGED <<url, slug, session_headers, attempts, body, strategies,
                   unpacked_js, all_m3u8_links, per_script>>
    /\ UNCHANGED <<outcomes, parked>>

\* Mutant: a break where the loop has a continue.
NextScript_Break ==
    /\ idx' = idx + 1
    /\ pc' = "Aggregate"

\* The for loop of line 262 moves to the next script or ends.
NextScript ==
    /\ idx' = idx + 1
    /\ pc' = IF idx < Len(packed_scripts) THEN "Unpack" ELSE "Aggregate"

\* What is recorded about a script: the strategies run, the text passed to
\* link extraction (None when the script was skipped), the extractor's links
\* and the aggressive pass's links (None when the pass did not run).
ScriptRecord(tried, passed, links, aggressive) ==
    [strategies |-> tried, passed |-> passed, m3u8_links |-> links,
     aggressive |-> aggressive]

\* lines 262-271
UnpackScript ==
    /\ pc = "Unpack"
    /\ trace' = Append(trace, "Unpack")
    /\ \E primary \in CallOutcomes, secondary \in SecondaryOutcomes :
          LET r == unpack_js(primary, secondary)
          IN /\ unpacked_js' = r.val
             /\ strategies' = r.tried
             /\ outcomes' = IF Len(r.tried) = 1 THEN <<primary>>
                             ELSE <<primary, secondary>>
             /\ pc' = IF Falsy(r.val) THEN "Third" ELSE "Extract"
    /\ UNCHANGED <<url, slug, session_headers, attempts, body, packed_scripts,
                   idx, all_m3u8_links, per_script, response>>
    /\ UNCHANGED parked

\* Mutant: an exception of the third unpacker is not caught.
ThirdUnpack_Propagates ==
    /\ pc = "Third"
    /\ trace' = Append(trace, "ThirdUnpack")
    /\ strategies' = Append(strategies, "tertiary")
    /\ \E o \in ThirdOutcomes :
          IF o.exc
          THEN /\ pc' = "Raised"
               /\ outcomes' = Append(outcomes, o)
               /\ UNCHANGED <<unpacked_js, idx, per_script>>
          ELSE IF ThirdSucceeded(o)
          THEN /\ unpacked_js' = o.val
               /\ outcomes' = Append(outcomes, o)
               /\ pc' = "Extract"
               /\ UNCHANGED <<idx, per_script>>
          ELSE /\ unpacked_js' = o.val
               /\ outcomes' = <<>>
               /\ per_script' = Append(per_script,
                                       ScriptRecord(strategies', None, <<>>, None))
               /\ NextScript
    /\ UNCHANGED <<url, slug, session_headers, attempts, body, packed_scripts,
                   all_m3u8_links, response>>
    /\ UNCHANGED parked

\* lines 272-305
ThirdUnpack ==
    /\ pc = "Third"
    /\ trace' = Append(trace, "ThirdUnpack")
    /\ strategies' = Append(strategies, "tertiary")
    /\ \E o \in ThirdOutcomes :
          IF ThirdSucceeded(o)
          THEN /\ unpacked_js' = o.val
               /\ outcomes' = Append(outcomes, o)
               /\ pc' = "Extract"
               /\ UNCHANGED <<idx, per_script>>
          ELSE /\ unpacked_js' = o.val
               /\ outcomes' = <<>>
               /\ per_script' = Append(per_script,
                                       ScriptRecord(strategies', None, <<>>, None))
               /\ NextScript
    /\ UNCHANGED <<url, slug, session_headers, attempts, body, packed_scripts,
                   all_m3u8_links, response>>
    /\ UNCHANGED parked

\* Mutant: the aggressive pass runs for every unpacked script.
ExtractLinks_AlwaysAggressive ==
    /\ pc = "Extract"
    /\ trace' = Append(trace, "ExtractLinks")
    /\ LET text      == TheVal(unpacked_js)
           m3u8_links == extract_m3u8_links(text)
           aggressive_links == AggressiveFindall(text, 1)
       IN /\ all_m3u8_links' = all_m3u8_links \o m3u8_links \o aggressive_links
          /\ per_script' = Append(per_script,
                ScriptRecord(strategies, unpacked_js, m3u8_links, Some(aggressive_links)))
    /\ NextScript
    /\ UNCHANGED <<url, slug, session_headers, attempts, body, packed_scripts,
                   strategies, unpacked_js, response>>
    /\ outcomes' = <<>>
    /\ UNCHANGED parked

\* lines 307-320
ExtractLinks ==
    /\ pc = "Extract"
    /\ trace' = Append(trace, "ExtractLinks")
    /\ LET text      == TheVal(unpacked_js)
           m3u8_links == extract_m3u8_links(text)
           aggressive_links == AggressiveFindall(text, 1)
       IN IF m3u8_links = <<>>
          THEN /\ all_m3u8_links' = all_m3u8_links \o m3u8_links \o aggressive_links
               /\ per_script' = Append(per_script,
                     ScriptRecord(strategies, unpacked_js, m3u8_links, Some(aggressive_links)))
          ELSE /\ all_m3u8_links' = all_m3u8_links \o m3u8_links
               /\ per_script' = Append(per_script,
                     ScriptRecord(strategies, unpacked_js, m3u8_links, None))
    /\ NextScript
    /\ UNCHANGED <<url, slug, session_headers, attempts, body, packed_scripts,
                   strategies, unpacked_js, response>>
    /\ outcomes' = <<>>
    /\ UNCHANGED parked

\* lines 322-340
Aggregate ==
    /\ pc = "Aggregate"
    /\ trace' = Append(trace, "Aggregate")
    /\ LET unique_m3u8_links == DictFromKeys(all_m3u8_links)
       IN IF unique_m3u8_links = <<>>
          THEN Return(NoLinksResponse(TheVal(slug), Len(packed_scripts)))
          ELSE Return(SuccessResponse(TheVal(slug), Len(packed_scripts), unique_m3u8_links))
    /\ UNCHANGED <<url, slug, session_headers, attempts, body, packed_scripts, idx,
                   strategies, unpacked_js, all_m3u8_links, per_script>>
    /\ UNCHANGED <<outcomes, parked>>

Next ==
    \/ ResolveSlug
    \/ FetchFirst
    \/ FetchRetryTimeout
    \/ FetchRetryHeaders
    \/ LocateScripts
    \/ UnpackScript
    \/ ThirdUnpack
    \/ ExtractLinks
    \/ Aggregate

Spec == Init /\ [][Next]_vars

\* Positions of a run; "Done" is the return to the caller.
Positions == {"ResolveSlug", "Fetch", "RetryTimeout", "RetryHeaders", "Locate",
              "Unpack", "Third", "Extract", "Aggregate", "Done"}

\* The run leaves the position it is at.  Every step of Next is such a
\* step, and one is possible exactly where a step of Next is: at every
\* position but "Done".
Advance ==
    /\ pc \in Positions \ {"Done"}
    /\ pc' \in Positions \ {pc}

\* A run is sequential code: it does not stay for ever at a position it can
\* leave (every call into the HTTP client or the sandbox comes back with one
\* of its outcomes).
FairSpec == Spec /\ WF_pc(Advance)

\* The slug resolver on its own, over every URL up to the bound.
SlugInit ==
    /\ url \in AllUrls
    /\ pc = "ResolveSlug"
    /\ slug = None
    /\ session_headers = DefaultHeaders
    /\ attempts = <<>>
    /\ body = None
    /\ packed_scripts = <<>>
    /\ idx = 0
    /\ strategies = <<>>
    /\ outcomes = <<>>
    /\ unpacked_js = None
    /\ all_m3u8_links = <<>>
    /\ per_script = <<>>
    /\ trace = <<>>
    /\ response = None
    /\ parked = None

SlugSpec == SlugInit /\ [][ResolveSlug]_vars

\* The link extraction of one script on its own, over every text built from
\* up to MaxFragments fragments.  It starts where a run is after one packed
\* script was located and its secondary unpacker returned the text.
MaxFragments == 5

Fragments ==
    {<<"sources", ":", "[">>, <<"file", ":", Quote, "a", Ext, Quote>>, <<"]">>,
     <<Ws>>, <<Quote>>, <<Scheme>>, <<"b", Ext>>, <<Scheme, "a", Ext>>}

RECURSIVE Concat(_)
Concat(parts) == IF parts = <<>> THEN <<>> ELSE Head(parts) \o Concat(Tail(parts))

FragmentTexts == {Concat(parts) : parts \in SeqsUpTo(Fragments, MaxFragments)} \ {<<>>}

ExtractInit ==
    /\ url = Url("host", <<"/", "a">>)
    /\ pc = "Extract"
    /\ slug = Some(<<"a">>)
    /\ session_headers = DefaultHeaders
    /\ attempts = <<Request(ShortTimeout, DefaultHeaders, "ok")>>
    /\ body = Some(<<Packed>>)
    /\ packed_scripts = <<Packed>>
    /\ idx = 1
    /\ strategies = <<"primary", "secondary">>
    /\ unpacked_js \in {Some(t) : t \in FragmentTexts}
    /\ outcomes = <<Returned(None), Returned(unpacked_js)>>
    /\ all_m3u8_links = <<>>
    /\ per_script = <<>>
    /\ trace = <<"ResolveSlug", "Fetch", "LocateScripts", "Unpack">>
    /\ response = None
    /\ parked = None

ExtractNext ==
    \/ ExtractLinks
    \/ Aggregate

ExtractSpec == ExtractInit /\ [][ExtractNext]_vars

\* ------------------------------------------------ concurrent requests
\* Two requests are served by the one scraper instance of line 349.  What
\* get_m3u8_from_source keeps between its statements is held in local
\* variables; self.session is the only object the two runs share.  A run is
\* switched out where it is about to use the session: the statements in
\* between read and write locals only and commute with the other run's.
Locals ==
    [url |-> url, pc |-> pc, slug |-> slug, attempts |-> attempts, body |-> body,
     packed_scripts |-> packed_scripts, idx |-> idx, strategies |-> strategies,
     outcomes |-> outcomes, unpacked_js |-> unpacked_js,
     all_m3u8_links |-> all_m3u8_links, per_script |-> per_script,
     trace |-> trace, response |-> response]

\* The locals of a run that has been called and has not taken a step.
StartLocals(u) ==
    [url |-> u, pc |-> "ResolveSlug", slug |-> None, attempts |-> <<>>,
     body |-> None, packed_scripts |-> <<>>, idx |-> 0, strategies |-> <<>>,
     outcomes |-> <<>>, unpacked_js |-> None, all_m3u8_links |-> <<>>,
     per_script |-> <<>>, trace |-> <<>>, response |-> None]

\* The waiting run gets the CPU: its locals are the current ones again.
Resume(l) ==
    /\ url' = l.url
    /\ pc' = l.pc
    /\ slug' = l.slug
    /\ attempts' = l.attempts
    /\ body' = l.body
    /\ packed_scripts' = l.packed_scripts
    /\ idx' = l.idx
    /\ strategies' = l.strategies
    /\ outcomes' = l.outcomes
    /\ unpacked_js' = l.unpacked_js
    /\ all_m3u8_links' = l.all_m3u8_links
    /\ per_script' = l.per_script
    /\ trace' = l.trace
    /\ response' = l.response

\* Positions at which the run is about to send a request.
PreemptPoints == {"Fetch", "RetryTimeout", "RetryHeaders"}

\* The URLs of the two concurrent requests: one with a slug, one without.
ConcUrls == {Url("host", <<"/", "a", "/", "a">>), Url("host", <<"/">>)}

ConcInit ==
    /\ url \in ConcUrls
    /\ pc = "ResolveSlug"
    /\ slug = None
    /\ session_headers = DefaultHeaders
    /\ attempts = <<>>
    /\ body = None
    /\ packed_scripts = <<>>
    /\ idx = 0
    /\ strategies = <<>>
    /\ outcomes = <<>>
    /\ unpacked_js = None
    /\ all_m3u8_links = <<>>
    /\ per_script = <<>>
    /\ trace = <<>>
    /\ response = None
    /\ parked \in {Some(StartLocals(u)) : u \in ConcUrls}

\* The running request is switched out and the waiting one runs.
Preempt ==
    /\ pc \in PreemptPoints
    /\ parked # None
    /\ Resume(TheVal(parked))
    /\ parked' = Some(Locals)
    /\ UNCHANGED session_headers

\* The running request has returned; its locals are gone and the waiting
\* request runs.
Retire ==
    /\ pc = "Done"
    /\ parked # None
    /\ Resume(TheVal(parked))
    /\ parked' = None
    /\ UNCHANGED session_headers

ConcNext ==
    \/ Next
    \/ Preempt
    \/ Retire

ConcSpec == ConcInit /\ [][ConcNext]_vars

\* ------------------------------------------------------------ properties
Returned_ == response # None
Result == TheVal(response)
Occurs(s, x) == \E i \in 1..Len(s) : s[i] = x
CountOf(s, x) == Cardinality({i \in 1..Len(s) : s[i] = x})
LastOutcome == attempts[Len(attempts)].outcome

\* Concatenation of the links every processed script contributed.
RECURSIVE LinksOf(_)
LinksOf(records) ==
    IF records = <<>> THEN <<>>
    ELSE LinksOf(Upto(records, Len(records) - 1))
         \o records[Len(records)].m3u8_links
         \o (IF records[Len(records)].aggressive = None THEN <<>>
             ELSE TheVal(records[Len(records)].aggressive))

\* C1: every returned result has success true exactly when its error is
\* absent and its count equals the number of its links, which is positive.
C1_SuccessIff ==
    Returned_ =>
        (Result.success <=>
            /\ Result.error = None
            /\ Result.count = Len(Result.m3u8_links)
            /\ Len(Result.m3u8_links) > 0)

\* A run that returned success with two links.
C1_Witness ==
    /\ Returned_
    /\ Result.success
    /\ Result.count = 2
    /\ Len(Result.m3u8_links) = 2

\* Position of a step in the order ResolveSlug, Fetch, LocateScripts,
\* per-script work, Aggregate.
Rank(step) ==
    CASE step = "ResolveSlug" -> 1
      [] step = "Fetch" -> 2
      [] step = "LocateScripts" -> 3
      [] step \in {"Unpack", "ThirdUnpack", "ExtractLinks"} -> 4
      [] step = "Aggregate" -> 5

\* C2: the steps of a run follow the order ResolveSlug, Fetch,
\* LocateScripts, per script Unpack then ExtractLinks, Aggregate; and a run
\* that returned success has resolved a slug, had a fetch attempt succeed,
\* located at least one packed script and aggregated a non-empty
\* deduplicated link list, each in an earlier step of that run.
C2_OrderAndSuccess ==
    /\ \A i \in 1..Len(trace) - 1 : Rank(trace[i]) <= Rank(trace[i + 1])
    /\ \A i \in 1..Len(trace) :
          /\ i = 1 <=> trace[i] = "ResolveSlug"
          /\ trace[i] = "LocateScripts" => trace[i - 1] = "Fetch"
          /\ trace[i] = "Unpack" => trace[i - 1] \in {"LocateScripts", "ThirdUnpack", "ExtractLinks"}
          /\ trace[i] = "ThirdUnpack" => trace[i - 1] = "Unpack"
          /\ trace[i] = "ExtractLinks" => trace[i - 1] \in {"Unpack", "ThirdUnpack"}
          /\ trace[i] = "Aggregate" => trace[i - 1] \in {"ThirdUnpack", "ExtractLinks"}
    /\ CountOf(trace, "LocateScripts") <= 1
    /\ CountOf(trace, "Aggregate") <= 1
    /\ (Returned_ /\ Result.success) =>
          /\ ~Falsy(slug) /\ Result.slug = slug
          /\ attempts # <<>> /\ LastOutcome = "ok"
          /\ Len(packed_scripts) >= 1
          /\ Result.m3u8_links = DictFromKeys(all_m3u8_links)
          /\ Result.m3u8_links # <<>>
          /\ \A step \in {"ResolveSlug", "Fetch", "LocateScripts", "Unpack",
                          "ExtractLinks", "Aggregate"} : Occurs(trace, step)
          /\ trace[Len(trace)] = "Aggregate"

\* A successful run over two scripts that needed a retry and the third
\* unpacker.
C2_Witness ==
    /\ Returned_
    /\ Result.success
    /\ Len(attempts) = 2
    /\ Len(packed_scripts) = 2
    /\ Occurs(trace, "ThirdUnpack")
    /\ CountOf(trace, "ExtractLinks") = 2

\* TRUE when no processed script yielded a link from the extractor.
NoScriptYieldedLinks == \A i \in 1..Len(per_script) : per_script[i].m3u8_links = <<>>

\* C3: when the fetch succeeded, n >= 1 scripts were located and no script
\* yielded a manifest URL, the result is a failure that reports n scripts,
\* no links, count 0 and the no-links error; success never comes with an
\* empty list.
C3_NoLinksIsFailure ==
    /\ (pc = "Done" /\ Len(packed_scripts) >= 1 /\ NoScriptYieldedLinks) =>
          /\ ~Result.success
          /\ Result.total_packed_scripts = Some(Len(packed_scripts))
          /\ Result.m3u8_links = <<>>
          /\ Result.count = 0
          /\ Result.error = Some(<<"No m3u8 links found in any scripts">>)
    /\ (Returned_ /\ Result.success) => Result.m3u8_links # <<>>

\* Two scripts, both unpacked and searched, neither with a link.
C3_Witness ==
    /\ pc = "Done"
    /\ Len(packed_scripts) = 2
    /\ Len(per_script) = 2
    /\ \A i \in 1..2 : per_script[i].passed # None /\ per_script[i].m3u8_links = <<>>
    /\ ~Result.success

\* C4: a script whose unpacking fails does not end the request: once the
\* loop is over every located script has been unpacked, every script whose
\* unpacking gave a text has been through link extraction, the links found
\* are all in the result, and total_packed_scripts counts every located
\* script.
C4_UnpackFailureNotFatal ==
    (pc = "Done" /\ Len(packed_scripts) >= 1) =>
        /\ CountOf(trace, "Unpack") = Len(packed_scripts)
        /\ Len(per_script) = Len(packed_scripts)
        /\ CountOf(trace, "ExtractLinks")
              = Cardinality({i \in 1..Len(per_script) : per_script[i].passed # None})
        /\ \A i \in 1..Len(per_script) :
              /\ per_script[i].passed = None =>
                    per_script[i].strategies[Len(per_script[i].strategies)] = "tertiary"
              /\ per_script[i].passed # None =>
                    /\ per_script[i].m3u8_links
                          = extract_m3u8_links(TheVal(per_script[i].passed))
                    /\ \A k \in 1..Len(per_script[i].m3u8_links) :
                          Occurs(Result.m3u8_links, per_script[i].m3u8_links[k])
        /\ Result.m3u8_links = DictFromKeys(LinksOf(per_script))
        /\ Result.total_packed_scripts = Some(Len(packed_scripts))

\* The first of two scripts was skipped, the second gave the links of the
\* successful result.
C4_Witness ==
    /\ pc = "Done"
    /\ Len(per_script) = 2
    /\ per_script[1].passed = None
    /\ per_script[2].passed # None
    /\ per_script[2].m3u8_links # <<>>
    /\ Result.success
    /\ Result.m3u8_links = per_script[2].m3u8_links
    /\ Result.total_packed_scripts = Some(2)

\* The fetch step is over: no request is pending.
FetchOver == attempts # <<>> /\ pc \notin {"RetryTimeout", "RetryHeaders"}

\* C5: after a first attempt that timed out there is exactly one retry,
\* sent with the longer timeout; when the retry succeeds the page goes on
\* to script location as after a first-attempt success, and the run is not
\* reported as a request error.
C5_TimeoutRetry ==
    /\ pc = "RetryTimeout" => (Len(attempts) = 1 /\ attempts[1].outcome = "Timeout")
    /\ (FetchOver /\ attempts[1].outcome = "Timeout") =>
          /\ Len(attempts) = 2
          /\ attempts[1].timeout = ShortTimeout
          /\ attempts[2].timeout = LongTimeout
          /\ attempts[2].timeout > attempts[1].timeout
          /\ attempts[2].outcome = "ok" =>
                /\ body # None
                /\ pc = "Locate" \/ Occurs(trace, "LocateScripts")
                /\ pc = "Done" =>
                      Result \in {NoScriptsResponse,
                                  NoLinksResponse(TheVal(slug), Len(packed_scripts)),
                                  SuccessResponse(TheVal(slug), Len(packed_scripts),
                                                  DictFromKeys(all_m3u8_links))}

\* A timeout, then a successful retry, then a successful result.
C5_Witness ==
    /\ Len(attempts) = 2
    /\ attempts[1].outcome = "Timeout"
    /\ attempts[2].outcome = "ok"
    /\ Returned_
    /\ Result.success

\* C6: after a first attempt that ended in a connection error there is
\* exactly one retry, sent with the alternate header profile; no run makes
\* more than two fetch attempts, whatever the second one's outcome.
C6_ConnectionRetry ==
    /\ Len(attempts) <= 2
    /\ CountOf(trace, "Fetch") = Len(attempts)
    /\ pc = "RetryHeaders" => (Len(attempts) = 1 /\ attempts[1].outcome = "ConnectionError")
    /\ (FetchOver /\ attempts[1].outcome = "ConnectionError") =>
          /\ Len(attempts) = 2
          /\ attempts[1].headers = DefaultHeaders
          /\ attempts[2].headers = BackupHeaders
    /\ (Len(attempts) = 2 /\ attempts[2].outcome # "ok") => pc = "Done"

\* A connection error, then a retry with the alternate headers that failed
\* with a connection error again.
C6_Witness ==
    /\ Len(attempts) = 2
    /\ attempts[1].outcome = "ConnectionError"
    /\ attempts[2].outcome = "ConnectionError"
    /\ attempts[2].headers = BackupHeaders
    /\ pc = "Done"

\* C7: an attempt that received an HTTP failure status is the last attempt
\* of its run; a second attempt exists only after a first attempt that
\* timed out or ended in a connection error.
C7_NoRetryOnHttpError ==
    /\ \A i \in 1..Len(attempts) :
          attempts[i].outcome = "HTTPError" => (i = Len(attempts) /\ pc = "Done")
    /\ Len(attempts) >= 2 => attempts[1].outcome \in {"Timeout", "ConnectionError"}

\* A first attempt that got an HTTP failure status and ended the run.
C7_Witness ==
    /\ Len(attempts) = 1
    /\ attempts[1].outcome = "HTTPError"
    /\ pc = "Done"
    /\ Returned_

\* The fetch ended in failure: the last attempt failed and is not retried.
FetchFailed == FetchOver /\ LastOutcome # "ok"

\* C8: a fetch that ended in failure ends the run with a failure result
\* whose error carries the failure, with no links, and no packed script is
\* located, unpacked or searched in that run.
C8_FetchFailureFatal ==
    FetchFailed =>
        /\ pc = "Done"
        /\ Returned_
        /\ ~Result.success
        /\ Result.error = Some(<<"Request error", LastOutcome>>)
        /\ Result.m3u8_links = <<>>
        /\ Result.count = 0
        /\ packed_scripts = <<>>
        /\ per_script = <<>>
        /\ body = None
        /\ \A i \in 1..Len(trace) : trace[i] \in {"ResolveSlug", "Fetch"}

\* A timeout followed by a retry that got an HTTP failure status.
C8_Witness ==
    /\ Len(attempts) = 2
    /\ attempts[1].outcome = "Timeout"
    /\ attempts[2].outcome = "HTTPError"
    /\ pc = "Done"
    /\ ~Result.success

\* The last non-empty segment of a path, None when it has none.
RECURSIVE LastSegment(_)
LastSegment(segments) ==
    IF segments = <<>> THEN None
    ELSE IF segments[Len(segments)] # <<>> THEN Some(segments[Len(segments)])
    ELSE LastSegment(Upto(segments, Len(segments) - 1))

\* The slug of a parsed URL as section 4.1 states it.
StatedSlug(parsed) ==
    IF LastSegment(Split(parsed.path, "/")) # None
    THEN LastSegment(Split(parsed.path, "/"))
    ELSE IF parse_qs(parsed.query, "id") # <<>>
    THEN Some(parse_qs(parsed.query, "id")[1])
    ELSE None

\* The slug resolver has run on a URL that parses.
SlugResolved == trace # <<>> /\ urlparse(url) # None

\* C9: the slug resolver returns the last non-empty path segment when the
\* path has one, else the value of the id query parameter when present,
\* and reports no slug when neither is present.
C9_SlugAsStated ==
    SlugResolved =>
        IF StatedSlug(TheVal(urlparse(url))) = None
        THEN Falsy(slug)
        ELSE slug = StatedSlug(TheVal(urlparse(url)))

\* C10: when no slug is resolved the run returns a failure with an error
\* and no partial data (no slug, no script count, no links, count 0) and
\* sends no request.
C10_NoSlugNoFetch ==
    (trace # <<>> /\ Falsy(extract_slug_from_url(url).val)) =>
        /\ pc = "Done"
        /\ Returned_
        /\ ~Result.success
        /\ Result.error # None
        /\ Result.slug = None
        /\ Result.total_packed_scripts = None
        /\ Result.m3u8_links = <<>>
        /\ Result.count = 0
        /\ attempts = <<>>
        /\ body = None
        /\ ~Occurs(trace, "Fetch")

\* A URL with an empty path and no query ended the run without a request.
C10_Witness ==
    /\ url = Url("host", <<"/">>)
    /\ pc = "Done"
    /\ Result = NoSlugResponse
    /\ attempts = <<>>

\* The page was fetched and the locator found no packed script in it.
NoScriptsLocated ==
    /\ Occurs(trace, "LocateScripts")
    /\ body # None
    /\ find_eval_packed_js(TheVal(body)) = <<>>

\* C11: when the fetch succeeded and the locator returned no packed script,
\* the run returns a failure whose error differs from the no-links error,
\* sends no further request and runs no unpack or link-extraction step.
C11_NoScriptsIsDistinctFailure ==
    NoScriptsLocated =>
        /\ pc = "Done"
        /\ Returned_
        /\ ~Result.success
        /\ Result.error # None
        /\ Result.error # NoLinksResponse(<<>>, 0).error
        /\ Result.m3u8_links = <<>>
        /\ Result.count = 0
        /\ trace[Len(trace)] = "LocateScripts"
        /\ LastOutcome = "ok"
        /\ CountOf(trace, "Fetch") = Len(attempts)
        /\ \A i \in 1..Len(trace) :
              trace[i] \notin {"Unpack", "ThirdUnpack", "ExtractLinks", "Aggregate"}
        /\ per_script = <<>>
        /\ unpacked_js = None

\* A page without packed scripts, fetched at the first attempt.
C11_Witness ==
    /\ Len(attempts) = 1
    /\ body = Some(<<"html", "html">>)
    /\ pc = "Done"
    /\ Result = NoScriptsResponse

\* The primary strategy returned, and what it returned is empty or shorter
\* than the minimum length.
PrimaryInsufficient ==
    /\ outcomes # <<>>
    /\ ~outcomes[1].exc
    /\ Falsy(outcomes[1].val) \/ StrLen(TheVal(outcomes[1].val)) < MinUnpackedLen

\* The secondary strategy was run right after the primary.
SecondaryRan ==
    /\ Len(strategies) >= 2
    /\ strategies[1] = "primary"
    /\ strategies[2] = "secondary"

Elements(s) == {s[i] : i \in 1..Len(s)}
FirstIndex(s, x) == CHOOSE i \in 1..Len(s) : s[i] = x /\ \A j \in 1..(i - 1) : s[j] # x

\* The links of out that are in pass keep the order they first have in pass.
KeepsOrderOf(out, pass) ==
    \A i, j \in 1..Len(out) :
        (i < j /\ out[i] \in Elements(pass) /\ out[j] \in Elements(pass)) =>
            FirstIndex(pass, out[i]) < FirstIndex(pass, out[j])

\* What the extractor returned for text: the structured pass's links come
\* first, then the generic pass's other links, each pass in its order.
StructuredThenGeneric(text, out) ==
    LET structured == StructuredLinks(text)
        generic    == GeneralFindall(text, 1)
    IN /\ Elements(out) = Elements(structured) \cup Elements(generic)
       /\ \A i \in 1..Len(out) :
             i <= Cardinality(Elements(structured)) <=> out[i] \in Elements(structured)
       /\ KeepsOrderOf(out, structured)
       /\ KeepsOrderOf(SubSeq(out, Cardinality(Elements(structured)) + 1, Len(out)), generic)

\* C13: for every unpacked text the extractor returns the structured-pass
\* matches first, in order of appearance, then the generic-pass matches in
\* order of appearance; the generic pass runs and is appended also when the
\* structured pass found links.
C13_StructuredThenGeneric ==
    \A i \in 1..Len(per_script) :
        per_script[i].passed # None =>
            StructuredThenGeneric(TheVal(per_script[i].passed), per_script[i].m3u8_links)

\* A sources block with one file and a bare URL after it.
C13_Witness ==
    /\ Len(per_script) = 1
    /\ per_script[1].passed
          = Some(<<"sources", ":", "[", "file", ":", Quote, "a", Ext, Quote, "]",
                   Ws, Scheme, "a", Ext>>)
    /\ per_script[1].m3u8_links = << <<"a", Ext>>, <<Scheme, "a", Ext>> >>

NoDuplicates(s) == \A i, j \in 1..Len(s) : s[i] = s[j] => i = j

\* out is raw without its repetitions, in the order of first occurrence.
FirstSeenOrder(out, raw) ==
    /\ NoDuplicates(out)
    /\ Elements(out) = Elements(raw)
    /\ \A i, j \in 1..Len(out) :
          i < j => FirstIndex(raw, out[i]) < FirstIndex(raw, out[j])

\* The raw links of a text: structured matches, then generic matches.
RawLinks(text) == StructuredLinks(text) \o GeneralFindall(text, 1)

\* The first script that contributed the link.
FirstScript(link) ==
    CHOOSE i \in 1..Len(per_script) :
        /\ link \in Elements(LinksOf(<<per_script[i]>>))
        /\ \A k \in 1..(i - 1) : link \notin Elements(LinksOf(<<per_script[k]>>))

\* The loop over the scripts is over and the result was built from it.
Aggregated == Returned_ /\ trace[Len(trace)] = "Aggregate"

\* C14: the list the extractor returns for a script and the final list over
\* all scripts each hold no link twice, hold every distinct raw link, and
\* order the links by first occurrence; in the final list a link first seen
\* in an earlier script precedes a link first seen in a later script.
C14_FirstSeenDeduplication ==
    /\ \A i \in 1..Len(per_script) :
          per_script[i].passed # None =>
              FirstSeenOrder(per_script[i].m3u8_links,
                             RawLinks(TheVal(per_script[i].passed)))
    /\ Aggregated =>
          /\ FirstSeenOrder(Result.m3u8_links, LinksOf(per_script))
          /\ \A i, j \in 1..Len(Result.m3u8_links) :
                i < j => FirstScript(Result.m3u8_links[i])
                            <= FirstScript(Result.m3u8_links[j])

\* Two scripts: the first repeats a link in its own text, the second brings
\* one new link and one the first script already gave.
C14_Witness ==
    /\ Aggregated
    /\ Len(per_script) = 2
    /\ per_script[1].passed = Some(GeneralText \o <<Ws>>)
    /\ per_script[2].passed = Some(QuotedText \o <<Ws>>)
    /\ Len(RawLinks(QuotedText \o <<Ws>>)) > Len(per_script[2].m3u8_links)
    /\ Result.m3u8_links = << <<Scheme, "b", Ext>>, <<Scheme, "a", Ext>> >>

\* C15: the aggressive pass is run for a script exactly when the script was
\* unpacked and neither the structured nor the generic pass found a link in
\* it; never for a script with a link, never for a script that was skipped.
C15_AggressiveOnlyWhenEmpty ==
    \A i \in 1..Len(per_script) :
        per_script[i].aggressive # None <=>
            /\ per_script[i].passed # None
            /\ StructuredLinks(TheVal(per_script[i].passed)) = <<>>
            /\ GeneralFindall(TheVal(per_script[i].passed), 1) = <<>>

\* One script was skipped, one had no link and got the aggressive pass.
C15_Witness ==
    /\ Len(per_script) = 2
    /\ per_script[1].passed = None
    /\ per_script[1].aggressive = None
    /\ per_script[2].passed # None
    /\ per_script[2].m3u8_links = <<>>
    /\ per_script[2].aggressive # None

\* A well-formed M3U8Response.
WellFormed(r) ==
    /\ r.success \in BOOLEAN
    /\ r.count = Len(r.m3u8_links)
    /\ r.error # None => (TheVal(r.error) # <<>> /\ TheVal(r.error)[1] # "")

\* Some step of the run failed.
StepFailed ==
    \/ trace # <<>> /\ extract_slug_from_url(url).exc
    \/ trace # <<>> /\ Falsy(extract_slug_from_url(url).val)
    \/ FetchFailed
    \/ NoScriptsLocated
    \/ \E i \in 1..Len(per_script) : per_script[i].passed = None
    \/ Aggregated /\ all_m3u8_links = <<>>

\* The run is over exactly when it has returned a well-formed result, and a
\* result without success carries a non-empty error.
ReturnsResult ==
    /\ pc \in Positions
    /\ pc = "Done" <=> Returned_
    /\ Returned_ =>
          /\ WellFormed(Result)
          /\ ~Result.success => Result.error # None
          /\ (StepFailed /\ Result.m3u8_links = <<>>) =>
                (~Result.success /\ Result.error # None)

RECURSIVE LinksFromPassed(_)
LinksFromPassed(records) ==
    IF records = <<>> THEN <<>>
    ELSE LET last == records[Len(records)]
             text == TheVal(last.passed)
         IN LinksFromPassed(Upto(records, Len(records) - 1))
            \o (IF last.passed = None THEN <<>>
                ELSE IF extract_m3u8_links(text) = <<>>
                THEN AggressiveFindall(text, 1)
                ELSE extract_m3u8_links(text))

\* The result that the run's own URL, its own requests' outcomes and its
\* own unpack outcomes determine.
OwnResult ==
    LET r == extract_slug_from_url(url)
    IN IF r.exc THEN UnexpectedErrorResponse("ValueError")
       ELSE IF Falsy(r.val) THEN NoSlugResponse
       ELSE IF LastOutcome # "ok" THEN RequestErrorResponse(LastOutcome)
       ELSE IF find_eval_packed_js(TheVal(body)) = <<>> THEN NoScriptsResponse
       ELSE LET n == Len(find_eval_packed_js(TheVal(body)))
                links == DictFromKeys(LinksFromPassed(per_script))
            IN IF links = <<>>
               THEN NoLinksResponse(TheVal(r.val), n)
               ELSE SuccessResponse(TheVal(r.val), n, links)

\* The headers the run's i-th request was sent with, as its own earlier
\* outcomes determine them: the alternate profile for the retry after a
\* connection error, the session's headers of construction otherwise.
OwnHeaders(i) ==
    IF i = 2 /\ attempts[1].outcome = "ConnectionError"
    THEN BackupHeaders ELSE DefaultHeaders

\* C17: with two runs interleaved on the one scraper instance, the HTTP
\* client's shared headers stay as constructed (also across the retry with
\* the alternate header profile), every request of a run is sent with the
\* headers its own outcomes determine, a step of one run leaves the other
\* run's locals as they were, and the result a run returns is the one its
\* own URL and its own fetch and unpack outcomes determine.
C17_RequestsIndependent ==
    /\ [](session_headers = DefaultHeaders)
    /\ [](\A i \in 1..Len(attempts) : attempts[i].headers = OwnHeaders(i))
    /\ [](pc = "Done" => response = Some(OwnResult))
    /\ [][parked' # parked =>
            /\ parked # None
            /\ Locals' = TheVal(parked)
            /\ parked' \in {None, Some(Locals)}]_vars

\* A run returned a success after a connection error and a retry with the
\* alternate headers, while the other run, switched in between the two
\* requests, sent a request of its own that timed out and waits to retry.
C17_Witness ==
    /\ pc = "Done"
    /\ Result.success
    /\ Len(attempts) = 2
    /\ attempts[2].headers = BackupHeaders
    /\ parked # None
    /\ TheVal(parked).pc = "RetryTimeout"
    /\ TheVal(parked).attempts[1].headers = DefaultHeaders

\* The three strategies in the order of the design.
StrategyOrder == <<"primary", "secondary", "tertiary">>

\* The outcome o of strategy s counts as a failure of that strategy.
StrategyFailed(s, o) ==
    CASE s = "primary" ->
            o.exc \/ Falsy(o.val) \/ StrLen(TheVal(o.val)) < MinUnpackedLen
      [] s = "secondary" -> o.exc \/ Falsy(o.val)
      [] s = "tertiary" -> ~ThirdSucceeded(o)

\* tried holds the strategies in their order with none left out.
InOrderNoneLeftOut(tried) ==
    /\ Len(tried) <= Len(StrategyOrder)
    /\ \A i \in 1..Len(tried) : tried[i] = StrategyOrder[i]

\* C18: the strategies run for a script are primary, secondary, tertiary
\* in this order with none left out; a strategy is run only after every
\* earlier one was run and failed, also when the earlier one failed by
\* raising; a script is skipped only after all three were run and failed;
\* and a tertiary output that is empty or begins with "Error:" is never
\* passed to link extraction.
C18_StrategiesInOrder ==
    /\ InOrderNoneLeftOut(strategies)
    /\ \A i \in 1..Len(outcomes) :
          i < Len(outcomes) => StrategyFailed(strategies[i], outcomes[i])
    /\ \A i \in 1..Len(per_script) :
          /\ InOrderNoneLeftOut(per_script[i].strategies)
          /\ per_script[i].passed = None =>
                per_script[i].strategies = StrategyOrder
          /\ (per_script[i].strategies # <<>>
               /\ per_script[i].strategies[Len(per_script[i].strategies)] = "tertiary") =>
                (per_script[i].passed = None
                 \/ ThirdSucceeded(Returned(per_script[i].passed)))

\* Concatenation of what the link extractor returned for every script.
RECURSIVE ExtractorOutputs(_)
ExtractorOutputs(records) ==
    IF records = <<>> THEN <<>>
    ELSE ExtractorOutputs(Upto(records, Len(records) - 1))
         \o records[Len(records)].m3u8_links

\* C19: a text in which the aggressive pattern has a match has a match of
\* the generic pattern too, so an aggressive pass that was run added no
\* link, and the links of the result are the per-script extractor outputs
\* put together, each link kept once at its first occurrence.
C19_AggressiveAddsNothing ==
    /\ unpacked_js # None /\ ~Falsy(unpacked_js) =>
          (AggressiveFindall(TheVal(unpacked_js), 1) # <<>> =>
             GeneralFindall(TheVal(unpacked_js), 1) # <<>>)
    /\ \A i \in 1..Len(per_script) :
          per_script[i].aggressive # None => TheVal(per_script[i].aggressive) = <<>>
    /\ Aggregated =>
          FirstSeenOrder(Result.m3u8_links, ExtractorOutputs(per_script))

\* The aggressive pass ran over a text holding a scheme, a quote and the
\* extension, and the run ended with no link.
C19_Witness ==
    /\ pc = "Done"
    /\ Len(per_script) = 1
    /\ per_script[1].aggressive = Some(<<>>)
    /\ {Scheme, Quote, Ext} \subseteq Elements(TheVal(per_script[1].passed))
    /\ Result.m3u8_links = <<>>
====
